---- MODULE Spec2Model ----
(***************************************************************************)
(* Model of Encode_Image.py: VAE image encoding and the four latent blends *)
(* (linear, slerp, barycentric, RBF) of the StyleAligned pipeline.         *)
(*                                                                         *)
(* Numbers.  A blending weight is a Python float; it is modelled as an     *)
(* integer count of 1e-8 (One is 1.0).  A tensor element is a float32; it  *)
(* is modelled as an integer count of 1e-3 (Milli is 1.0), every division  *)
(* rounding toward zero.  A NaN element is recorded in the tensor's nan    *)
(* set (its data entry is then 0).                                         *)
(***************************************************************************)
EXTENDS Integers, Sequences, FiniteSets, TLC

One == 10^8
Milli == 10^3

Abs(x) == IF x < 0 THEN -x ELSE x

\* Division rounding toward zero (the sign-symmetric rounding of a float quotient).
Quot(x, y) == IF (x < 0) = (y < 0) THEN Abs(x) \div Abs(y) ELSE -(Abs(x) \div Abs(y))

RECURSIVE SqrtSearch(_, _, _)
SqrtSearch(x, lo, hi) ==
    IF lo >= hi THEN lo
    ELSE LET mid == (lo + hi + 1) \div 2
         IN  IF mid * mid <= x THEN SqrtSearch(x, mid, hi) ELSE SqrtSearch(x, lo, mid - 1)

\* floor(sqrt(x)) for 0 <= x < 2^31
isqrt(x) == SqrtSearch(x, 0, 46340)

\* Python's sum(): left to right, starting from 0.
RECURSIVE sum(_)
sum(s) == IF Len(s) = 0 THEN 0 ELSE sum(SubSeq(s, 1, Len(s) - 1)) + s[Len(s)]

\* np.isclose defaults: atol = 1e-8 (one weight unit), rtol = 1e-5 (1 / rtol_inv).
atol == 1
rtol_inv == 100000

\* isclose with a relative tolerance of 1e-6 in place of numpy's default.
isclose_tight(a, b) == Abs(a - b) <= atol + Abs(b) \div (10 * rtol_inv)

\* np.isclose(a, b): |a - b| <= atol + rtol * |b|
isclose(a, b) == Abs(a - b) <= atol + Abs(b) \div rtol_inv

\* The two assert statements that open every blend: lengths match, weights sum to 1.
\* "ok", or the assertion that fails first.
check_weights(n, weights) ==
    IF n # Len(weights) THEN "AssertionError:length"
    ELSE IF ~isclose(sum(weights), One) THEN "AssertionError:sum"
    ELSE "ok"

-----------------------------------------------------------------------------
(* Tensors *)

RECURSIVE numel(_)
numel(shape) == IF Len(shape) = 0 THEN 1 ELSE shape[1] * numel(Tail(shape))

Tensor(shape, data, nan) == [shape |-> shape, data |-> data, nan |-> nan]

\* Python's None, where a tensor variable holds no tensor yet.
None == Tensor(<<0>>, <<>>, {})

\* x * w for a tensor element x (units of 1e-3) and a weight w (units of 1e-8),
\* computed without leaving 32 bits: floor(x * w / 1e8).
Mul(x, w) ==
    LET wh == w \div 100000
        wl == w % 100000
    IN  (x * wh + (x * wl) \div 100000) \div 1000

\* latent * weight: a new tensor.
mul_scalar(t, w) ==
    Tensor(t.shape, [k \in 1..Len(t.data) |-> IF k \in t.nan THEN 0 ELSE Mul(t.data[k], w)], t.nan)

\* a + b elementwise, for equal shapes.
add(a, b) ==
    LET nn == a.nan \cup b.nan
    IN  Tensor(a.shape, [k \in 1..Len(a.data) |-> IF k \in nn THEN 0 ELSE a.data[k] + b.data[k]], nn)

\* torch.zeros_like(t)
zeros(shape) == Tensor(shape, [k \in 1..numel(shape) |-> 0], {})

RECURSIVE flatten(_)
flatten(ss) == IF Len(ss) = 0 THEN <<>> ELSE ss[1] \o flatten(Tail(ss))

\* All tensors of a list have the shape of the first.
same_shapes(ts) == \A i \in 1..Len(ts) : ts[i].shape = ts[1].shape

RECURSIVE SumOver(_, _, _)
\* f(1) + ... + f(n), accumulated in index order
SumOver(f, lo, hi) == IF lo > hi THEN 0 ELSE SumOver(f, lo, hi - 1) + f[hi]

-----------------------------------------------------------------------------
(* Accumulators.  A blend holds its input latents in lat (one tensor object *)
(* per list position) and its running result in acc: acc.alias = 0 when the *)
(* running result is a tensor object of its own, and i > 0 when it is the   *)
(* very object lat[i], so that an in-place write to it is a write to lat[i].*)

Blend(lat, acc, raised) == [lat |-> lat, acc |-> acc, raised |-> raised]

NoAcc == [alias |-> 0, val |-> None]

\* "blended_latent = latents[0]": the accumulator is the first input itself.
alias_first(lat, k) == [alias |-> k, val |-> lat[k]]

\* blended_latent = torch.zeros_like(latents[0]): a new tensor object.
zeros_like(lat, k) == [alias |-> 0, val |-> zeros(lat[k].shape)]

\* blended_latent_img = latent_img * weight: a new tensor object.
scaled_copy(lat, k, w) == [alias |-> 0, val |-> mul_scalar(lat[k], w)]

\* blended += x, in place: writes the object the accumulator is.
iadd(b, x) ==
    IF b.acc.alias = 0
    THEN [b EXCEPT !.acc.val = add(@, x)]
    ELSE [b EXCEPT !.acc.val = add(@, x), !.lat[b.acc.alias] = add(@, x)]

\* One pass of "blended += latent * weight".  torch raises RuntimeError when the
\* shapes differ (the encoder's latents of different sizes never broadcast).
accumulate(b, k, w) ==
    IF b.lat[k].shape # b.acc.val.shape
    THEN [b EXCEPT !.raised = "RuntimeError:shape"]
    ELSE iadd(b, mul_scalar(b.lat[k], w))

RECURSIVE bary_loop(_, _, _)
bary_loop(b, weights, k) ==
    IF k > Len(b.lat) \/ k > Len(weights) \/ b.raised # "" THEN b
    ELSE bary_loop(accumulate(b, k, weights[k]), weights, k + 1)

\* barycentric_interpolation(latents, weights): the call's outcome, the latents
\* as the call leaves them, and the returned tensor.
barycentric_interpolation(latents, weights) ==
    LET chk == check_weights(Len(latents), weights)
    IN  IF chk # "ok" THEN Blend(latents, NoAcc, chk)
        ELSE bary_loop(Blend(latents, zeros_like(latents, 1), ""), weights, 1)

-----------------------------------------------------------------------------
(* Weighted slerp.  Angles are counted in ticks of 15 degrees (pi / 12).    *)

\* 1000 * sin(k * 15 degrees), k = 0..12, at SinTab[k + 1]
SinTab == <<0, 259, 500, 707, 866, 966, 1000, 966, 866, 707, 500, 259, 0>>

\* 1000 * cos(k * 15 degrees), k = 0..12, at CosTab[k + 1]
CosTab == <<1000, 966, 866, 707, 500, 259, 0, -259, -500, -707, -866, -966, -1000>>

HalfTurn == 12 * One

\* 1000 * sin(x), x an angle in units of 1e-8 tick, by linear interpolation.
RECURSIVE SinAt(_)
SinAt(x) ==
    IF x < 0 THEN -SinAt(-x)
    ELSE IF x >= HalfTurn THEN -SinAt(x - HalfTurn)
    ELSE LET k == x \div One
             f == (x % One) \div 100000
         IN  SinTab[k + 1] + Quot((SinTab[k + 2] - SinTab[k + 1]) * f, Milli)

RowMax(a) == LET S == {Abs(a[k]) : k \in 1..Len(a)} IN CHOOSE m \in S : \A y \in S : y <= m

\* A row rescaled so that its largest entry is 1.0 (keeps the squares in range).
RowScale(a) == LET m == RowMax(a) IN [k \in 1..Len(a) |-> Quot(a[k] * Milli, m)]

RowDot(a, b) == SumOver([k \in 1..Len(a) |-> a[k] * b[k]], 1, Len(a))

\* v / torch.norm(v, dim=-1, keepdim=True) for one row
RowUnit(a) ==
    LET s == RowScale(a)
        n == isqrt(RowDot(s, s))
    IN  [k \in 1..Len(a) |-> Quot(s[k] * Milli, n)]

\* torch.sum(v0_norm * v1_norm, dim=-1): the cosine, exactly 1.0 (-1.0) for rows
\* that point the same (the opposite) way, as in exact arithmetic.
RowCos(a, b) ==
    LET sa == RowScale(a)
        sb == RowScale(b)
    IN  IF sa = sb THEN Milli
        ELSE IF sa = [k \in 1..Len(a) |-> -sb[k]] THEN -Milli
        ELSE Quot(RowDot(RowUnit(a), RowUnit(b)), Milli)

\* torch.acos, in ticks: 0 for cosine 1.0, 12 for -1.0, else the nearest tick between.
acos(c) ==
    IF c >= Milli THEN 0
    ELSE IF c <= -Milli THEN 12
    ELSE CHOOSE k \in 1..11 : \A j \in 1..11 :
             \/ Abs(CosTab[k + 1] - c) < Abs(CosTab[j + 1] - c)
             \/ (Abs(CosTab[k + 1] - c) = Abs(CosTab[j + 1] - c) /\ k <= j)

\* One row of weighted_slerp.  <<>> stands for a row of NaN: a zero row has norm
\* 0 and 0/0 is NaN; and when sin(omega) is 0 both quotients are 0/0 or x/0, and
\* NaN * v or inf * v0 + inf * v1 of opposite rows is NaN in every element.
slerp_row(weight, a, b) ==
    IF RowMax(a) = 0 \/ RowMax(b) = 0 THEN <<>>
    ELSE LET omega == acos(RowCos(a, b))
             sin_omega == SinTab[omega + 1]
             c0 == SinAt((One - weight) * omega)
             c1 == SinAt(weight * omega)
         IN  IF sin_omega = 0 THEN <<>>
             ELSE [k \in 1..Len(a) |-> Quot(c0 * a[k] + c1 * b[k], sin_omega)]

\* weighted_slerp(weight, v0, v1) for equal shapes: row by row along the last axis.
weighted_slerp(weight, v0, v1) ==
    LET W == v0.shape[Len(v0.shape)]
        R == Len(v0.data) \div W
        idx(r) == ((r - 1) * W + 1)..(r * W)
        row(t, r) == [k \in 1..W |-> t.data[(r - 1) * W + k]]
        bad(r) == (idx(r) \cap (v0.nan \cup v1.nan)) # {}
        out(r) == IF bad(r) THEN <<>> ELSE slerp_row(weight, row(v0, r), row(v1, r))
        rowof(k) == (k - 1) \div W + 1
    IN  Tensor(v0.shape,
               [k \in 1..Len(v0.data) |->
                   IF out(rowof(k)) = <<>> THEN 0 ELSE out(rowof(k))[((k - 1) % W) + 1]],
               {k \in 1..Len(v0.data) : out(rowof(k)) = <<>>})

\* The linear interpolation (1 - t) * v0 + t * v1.
lerp(t, v0, v1) == add(mul_scalar(v0, One - t), mul_scalar(v1, t))

-----------------------------------------------------------------------------
(* RBF blend *)

\* 1000 * exp(-n), n = 0..8, at ExpTab[n + 1]
ExpTab == <<1000, 368, 135, 50, 18, 7, 2, 1, 0>>

\* 1000 * exp(-x / 1000), by linear interpolation; 0 from exp(-8) on.
ExpNeg(x) ==
    LET n == x \div Milli
        f == x % Milli
    IN  IF n >= 8 THEN 0
        ELSE ExpTab[n + 1] + Quot((ExpTab[n + 2] - ExpTab[n + 1]) * f, Milli)

\* gaussian_rbf(distances, epsilon) for one distance: exp(-(epsilon * d)^2)
gaussian_rbf(d, epsilon) == ExpNeg(Quot((epsilon * d) * (epsilon * d), Milli))

\* torch.cdist(x, x, p=2)[i][j] on the flattened latents
cdist(latents, i, j) ==
    LET x == latents[i].data
        y == latents[j].data
    IN  isqrt(SumOver([k \in 1..Len(x) |-> (x[k] - y[k]) * (x[k] - y[k])], 1, Len(x)))

\* The kernel of the latents, each row normalised to sum 1 (lines 249-255).
rbf_weights(latents, epsilon) ==
    LET N == Len(latents)
        K == [i \in 1..N |-> [j \in 1..N |-> gaussian_rbf(cdist(latents, i, j), epsilon)]]
    IN  [i \in 1..N |-> LET rowsum == SumOver(K[i], 1, N)
                        IN  [j \in 1..N |-> Quot(K[i][j] * Milli, rowsum)]]

\* torch.einsum('ij,i...->j...', rbf_weights, latent_stack): the result has the
\* shape of the stack, one blend per column j of the kernel.
einsum(Kn, latents) ==
    LET N == Len(latents)
        D == Len(latents[1].data)
        anynan == \E i \in 1..N : latents[i].nan # {}
        outj(j) == [k \in 1..D |->
                      IF anynan THEN 0
                      ELSE Quot(SumOver([i \in 1..N |-> Kn[i][j] * latents[i].data[k]], 1, N), Milli)]
    IN  Tensor(<<N>> \o latents[1].shape,
               flatten([j \in 1..N |-> outj(j)]),
               IF anynan THEN 1..(N * D) ELSE {})

\* An RBF blend that multiplies the kernel's row i by N * weights[i].
rbf_interpolation_weighted(latents, weights, epsilon) ==
    LET chk == check_weights(Len(latents), weights)
        N == Len(latents)
        Kn == rbf_weights(latents, epsilon)
        Kw == [i \in 1..N |-> [j \in 1..N |-> Mul(N * Kn[i][j], weights[i])]]
    IN  IF chk # "ok" THEN Blend(latents, NoAcc, chk)
        ELSE IF ~same_shapes(latents) THEN Blend(latents, NoAcc, "RuntimeError:shape")
        ELSE Blend(latents, [alias |-> 0, val |-> einsum(Kw, latents)], "")

\* rbf_interpolation(latents, weights, epsilon).  torch.stack raises RuntimeError
\* on latents of different shapes.
rbf_interpolation(latents, weights, epsilon) ==
    LET chk == check_weights(Len(latents), weights)
    IN  IF chk # "ok" THEN Blend(latents, NoAcc, chk)
        ELSE IF ~same_shapes(latents) THEN Blend(latents, NoAcc, "RuntimeError:shape")
        ELSE Blend(latents, [alias |-> 0, val |-> einsum(rbf_weights(latents, epsilon), latents)], "")

-----------------------------------------------------------------------------
(* Inputs *)

\* Longest image, latent or weight list a call is given.
MaxLen == 3

\* The images a caller holds: two colour images of one size, a colour image of
\* another size, and a grayscale image (a 2-D array).
Images == {"imgA", "imgB", "imgTall", "imgGray"}

\* img.ndim of the numpy array
ndim(img) == IF img = "imgGray" THEN 2 ELSE 3

\* model.vae.encode(...)['latent_dist'].mean * scaling_factor: the encoder is a
\* fixed function of the image; the latent is (1, C, H/8, W/8).  The rows of
\* these latents lie along an axis or along (3, 4): float32 normalises such a
\* row, and every multiple of it, to one and the same unit vector.
vae_encode(img) ==
    CASE img = "imgA" -> Tensor(<<1, 1, 2, 2>>, <<1000, 0, 0, 1000>>, {})
      [] img = "imgB" -> Tensor(<<1, 1, 2, 2>>, <<0, 1000, 3000, 4000>>, {})
      [] OTHER        -> Tensor(<<1, 1, 3, 2>>, <<3000, 4000, 0, 1000, 1000, 0>>, {})

\* Latents a caller passes to a blend directly: encoder outputs, and the first
\* one doubled (colinear with it).
Latents ==
    {vae_encode(img) : img \in {"imgA", "imgB", "imgTall"}}
        \cup {mul_scalar(vae_encode("imgA"), 2 * One)}

\* Weights 0.25, 0.5 and 1.0; a list's last weight may be off by Deltas.
WeightValues == {One \div 4, One \div 2, One}
Deltas == {0, 500}

SeqsUpTo(S, n) == UNION {[1..m -> S] : m \in 0..n}

WeightLists ==
    {<<>>} \cup {[w EXCEPT ![Len(w)] = @ + d] : w \in SeqsUpTo(WeightValues, MaxLen) \ {<<>>}, d \in Deltas}

Epsilons == {1, 2}

ListOps == {"images_encoding", "images_encoding_slerp",
            "images_encoding_barycentric", "images_encoding_rbf"}
EncodeOps == ListOps \cup {"image_encoding"}
BlendOps == {"barycentric_interpolation", "rbf_interpolation"}

-----------------------------------------------------------------------------
(* State *)

VARIABLES
    vae_dtype,   \* model.vae's precision: "float16" or "float32"
    call,        \* per thread: the call it is running
    checked      \* the weight validator applied alone: its input and verdict

vars == <<vae_dtype, call, checked>>

\* A thread outside any call.
Idle ==
    [op |-> "", images |-> <<>>, weights |-> <<>>, epsilon |-> 1, args |-> <<>>,
     pc |-> "idle", lat |-> <<>>, acc |-> NoAcc, out |-> None, raised |-> "",
     dtype0 |-> "", nenc |-> 0, ev |-> <<>>]

NotChecked == [n |-> 0, weights |-> <<>>, verdict |-> ""]

Min(a, b) == IF a < b THEN a ELSE b

\* A call that switches the encoder's precision before it checks anything.
entry_pc_unchecked(op) == "to32"

\* Where a call starts: the asserts, except image_encoding, which has none.
entry_pc(op) == IF op = "image_encoding" THEN "to32" ELSE "assert"

\* Number of loop passes: zip(images, blending_weights), or "for img in images".
passes(c) ==
    IF c.op \in {"images_encoding", "images_encoding_slerp"}
    THEN Min(Len(c.images), Len(c.weights))
    ELSE Len(c.images)

Raise(c, err) == [c EXCEPT !.raised = err, !.pc = "raised"]

\* A linear loop whose first pass takes the latent unweighted.
linear_step_unscaled(b, k, w) ==
    IF b.acc.val = None THEN [b EXCEPT !.acc = [alias |-> 0, val |-> b.lat[k]]]
    ELSE accumulate(b, k, w)

\* A slerp loop that interpolates from the new latent toward the running result.
slerp_step_swapped(b, k, w) ==
    IF b.acc.val = None THEN [b EXCEPT !.acc = scaled_copy(b.lat, k, w)]
    ELSE IF b.lat[k].shape # b.acc.val.shape THEN [b EXCEPT !.raised = "RuntimeError:shape"]
    ELSE [b EXCEPT !.acc = [alias |-> 0, val |-> weighted_slerp(w, b.lat[k], b.acc.val)]]

\* The blend step of one loop pass, the latent just encoded being c.lat[k].
\* images_encoding (lines 78-81)
linear_step(b, k, w) ==
    IF b.acc.val = None THEN [b EXCEPT !.acc = scaled_copy(b.lat, k, w)]
    ELSE accumulate(b, k, w)

\* images_encoding_slerp (lines 137-140)
slerp_step(b, k, w) ==
    IF b.acc.val = None THEN [b EXCEPT !.acc = scaled_copy(b.lat, k, w)]
    ELSE IF b.lat[k].shape # b.acc.val.shape THEN [b EXCEPT !.raised = "RuntimeError:shape"]
    ELSE [b EXCEPT !.acc = [alias |-> 0, val |-> weighted_slerp(w, b.acc.val, b.lat[k])]]

blend_step(op, b, k, weights) ==
    CASE op = "images_encoding"       -> linear_step(b, k, weights[k])
      [] op = "images_encoding_slerp" -> slerp_step(b, k, weights[k])
      [] op = "image_encoding"        -> [b EXCEPT !.acc = [alias |-> k, val |-> b.lat[k]]]
      [] OTHER                        -> b

Init ==
    /\ vae_dtype \in {"float16", "float32"}
    /\ call = [t \in {1} |-> Idle]
    /\ checked = NotChecked

Begin(t, op, images, weights, epsilon) ==
    /\ call[t].pc = "idle"
    /\ call' = [call EXCEPT ![t] = [Idle EXCEPT !.op = op, !.images = images,
                                      !.weights = weights, !.epsilon = epsilon,
                                      !.pc = entry_pc(op), !.dtype0 = vae_dtype]]
    /\ UNCHANGED <<vae_dtype, checked>>

\* A caller invokes image_encoding or one of the images_encoding* functions.
Call(t) ==
    /\ call[t].pc = "idle"
    /\ \/ \E img \in Images : Begin(t, "image_encoding", <<img>>, <<>>, 1)
       \/ \E op \in ListOps \ {"images_encoding_rbf"}, images \in SeqsUpTo(Images, MaxLen),
             weights \in WeightLists : Begin(t, op, images, weights, 1)
       \/ \E images \in SeqsUpTo(Images, MaxLen), weights \in WeightLists, epsilon \in Epsilons :
             Begin(t, "images_encoding_rbf", images, weights, epsilon)

\* The two asserts on entry.
Validate(t) ==
    LET c == call[t]
        chk == check_weights(Len(c.images), c.weights)
    IN  /\ c.pc = "assert"
        /\ call' = [call EXCEPT ![t] = IF chk = "ok" THEN [c EXCEPT !.pc = "to32"] ELSE Raise(c, chk)]
        /\ UNCHANGED <<vae_dtype, checked>>

\* model.vae.to(dtype=torch.float32)
ToFloat32(t) ==
    LET c == call[t]
    IN  /\ c.pc = "to32"
        /\ vae_dtype' = "float32"
        /\ call' = [call EXCEPT ![t] = [c EXCEPT !.pc = "loop", !.ev = Append(@, "to32")]]
        /\ UNCHANGED checked

\* One loop pass: image to tensor, permute, encode, blend step.  permute(2, 0, 1)
\* raises on a 2-D array; the encoder raises on a float32 input when its weights
\* are float16.
Iterate(t) ==
    LET c == call[t]
        k == Len(c.lat) + 1
        img == c.images[k]
        b0 == Blend(Append(c.lat, vae_encode(img)), c.acc, "")
        b1 == blend_step(c.op, b0, k, c.weights)
        done == [c EXCEPT !.lat = b1.lat, !.acc = b1.acc, !.nenc = @ + 1,
                          !.ev = @ \o <<"tensor", "encode", "tensor">>]
    IN  /\ c.pc = "loop"
        /\ k <= passes(c)
        /\ call' = [call EXCEPT ![t] =
                      IF ndim(img) # 3
                      THEN Raise([c EXCEPT !.ev = Append(@, "tensor")], "RuntimeError:permute")
                      ELSE IF vae_dtype # "float32"
                      THEN Raise([c EXCEPT !.ev = @ \o <<"tensor", "encode">>, !.nenc = @ + 1],
                                 "RuntimeError:dtype")
                      ELSE IF b1.raised # "" THEN Raise(done, b1.raised)
                      ELSE done]
        /\ UNCHANGED <<vae_dtype, checked>>

\* After the loop: barycentric_interpolation / rbf_interpolation on the collected
\* latents (images_encoding_barycentric, images_encoding_rbf); nothing otherwise.
AfterLoop(t) ==
    LET c == call[t]
        b == IF c.op = "images_encoding_barycentric"
             THEN barycentric_interpolation(c.lat, c.weights)
             ELSE IF c.op = "images_encoding_rbf"
             THEN rbf_interpolation(c.lat, c.weights, c.epsilon)
             ELSE Blend(c.lat, c.acc, "")
        d == [c EXCEPT !.lat = b.lat, !.acc = b.acc, !.pc = "to16",
                       !.ev = IF c.op \in {"images_encoding_barycentric", "images_encoding_rbf"}
                              THEN Append(@, "tensor") ELSE @]
    IN  /\ c.pc = "loop"
        /\ Len(c.lat) = passes(c)
        /\ call' = [call EXCEPT ![t] = IF b.raised # "" THEN Raise(d, b.raised) ELSE d]
        /\ UNCHANGED <<vae_dtype, checked>>

\* model.vae.to(dtype=torch.float16); return
ToFloat16(t) ==
    LET c == call[t]
    IN  /\ c.pc = "to16"
        /\ vae_dtype' = "float16"
        /\ call' = [call EXCEPT ![t] = [c EXCEPT !.pc = "returned", !.out = c.acc.val,
                                                 !.ev = Append(@, "to16")]]
        /\ UNCHANGED checked

\* A caller invokes barycentric_interpolation or rbf_interpolation on latents it holds.
CallBlend(t) ==
    /\ call[t].pc = "idle"
    /\ \E op \in BlendOps, latents \in SeqsUpTo(Latents, MaxLen), weights \in WeightLists,
       epsilon \in Epsilons :
        LET b == IF op = "barycentric_interpolation"
                 THEN barycentric_interpolation(latents, weights)
                 ELSE rbf_interpolation(latents, weights, epsilon)
            c == [Idle EXCEPT !.op = op, !.args = latents, !.weights = weights,
                              !.epsilon = epsilon, !.dtype0 = vae_dtype,
                              !.lat = b.lat, !.acc = b.acc]
        IN  /\ op = "barycentric_interpolation" => epsilon = 1
            /\ call' = [call EXCEPT ![t] =
                          IF b.raised # "" THEN Raise(IF b.raised \in {"AssertionError:length", "AssertionError:sum"}
                                                      THEN c ELSE [c EXCEPT !.ev = <<"tensor">>], b.raised)
                          ELSE [c EXCEPT !.pc = "returned", !.out = b.acc.val, !.ev = <<"tensor">>]]
            /\ UNCHANGED <<vae_dtype, checked>>

\* A caller invokes weighted_slerp on two latents it holds.
CallSlerp(t) ==
    /\ call[t].pc = "idle"
    /\ \E weight \in WeightValues \cup {0}, v0 \in Latents, v1 \in Latents :
        LET c == [Idle EXCEPT !.op = "weighted_slerp", !.args = <<v0, v1>>, !.lat = <<v0, v1>>,
                              !.weights = <<weight>>, !.dtype0 = vae_dtype, !.ev = <<"tensor">>]
        IN  call' = [call EXCEPT ![t] =
                          IF v0.shape # v1.shape THEN Raise(c, "RuntimeError:shape")
                          ELSE [c EXCEPT !.pc = "returned", !.out = weighted_slerp(weight, v0, v1)]]
    /\ UNCHANGED <<vae_dtype, checked>>

\* The caller takes the result (or the exception); the thread is free again.
Finish(t) ==
    /\ call[t].pc \in {"returned", "raised"}
    /\ call' = [call EXCEPT ![t] = Idle]
    /\ UNCHANGED <<vae_dtype, checked>>

Threads == DOMAIN call

Next ==
    \/ \E t \in Threads : Call(t)
    \/ \E t \in Threads : Validate(t)
    \/ \E t \in Threads : ToFloat32(t)
    \/ \E t \in Threads : Iterate(t)
    \/ \E t \in Threads : AfterLoop(t)
    \/ \E t \in Threads : ToFloat16(t)
    \/ \E t \in Threads : CallBlend(t)
    \/ \E t \in Threads : CallSlerp(t)
    \/ \E t \in Threads : Finish(t)

Spec == Init /\ [][Next]_vars

-----------------------------------------------------------------------------
(* The weight validator applied alone, on sums on both sides of its tolerance *)

FineDeltas == {-1002, -1001, -101, -100, 0, 100, 101, 1001, 1002}

FineWeightLists ==
    {[w EXCEPT ![Len(w)] = @ + d] : w \in SeqsUpTo(WeightValues, MaxLen) \ {<<>>}, d \in FineDeltas}

InitVal ==
    /\ vae_dtype = "float16"
    /\ call = [t \in {1} |-> Idle]
    /\ checked = NotChecked

\* The asserts of a blend, given n items and a weight list.
CheckWeights ==
    /\ checked.verdict = ""
    /\ \E n \in 0..MaxLen, weights \in FineWeightLists \cup {<<>>} :
          checked' = [n |-> n, weights |-> weights, verdict |-> check_weights(n, weights)]
    /\ UNCHANGED <<vae_dtype, call>>

ForgetCheck ==
    /\ checked.verdict # ""
    /\ checked' = NotChecked
    /\ UNCHANGED <<vae_dtype, call>>

NextVal == CheckWeights \/ ForgetCheck

SpecVal == InitVal /\ [][NextVal]_vars

-----------------------------------------------------------------------------
(* Two threads calling the encode functions on one model *)

ConcImages == {<<"imgA">>, <<"imgB">>, <<"imgA", "imgB">>, <<"imgB", "imgA">>}

InitConc ==
    /\ vae_dtype \in {"float16", "float32"}
    /\ call = [t \in {1, 2} |-> Idle]
    /\ checked = NotChecked

\* A thread calls an encode function with valid inputs of one size.
CallConc(t) ==
    /\ call[t].pc = "idle"
    /\ \/ \E img \in {"imgA", "imgB"} : Begin(t, "image_encoding", <<img>>, <<>>, 1)
       \/ \E op \in ListOps, images \in ConcImages :
             Begin(t, op, images, [i \in 1..Len(images) |-> One \div Len(images)], 1)

NextConc ==
    \/ \E t \in Threads : CallConc(t)
    \/ \E t \in Threads : Validate(t)
    \/ \E t \in Threads : ToFloat32(t)
    \/ \E t \in Threads : Iterate(t)
    \/ \E t \in Threads : AfterLoop(t)
    \/ \E t \in Threads : ToFloat16(t)
    \/ \E t \in Threads : Finish(t)

SpecConc == InitConc /\ [][NextConc]_vars

-----------------------------------------------------------------------------
(* Properties *)

AssertionErrors == {"AssertionError:length", "AssertionError:sum"}

\* Number of items a blend call was given.
Items(c) == IF c.op \in ListOps THEN Len(c.images) ELSE Len(c.args)

\* 1e-6, the tolerance the design document gives the weight check.
DocTol == One \div 10^6

\* 1e-8 + 1e-5 * 1.0, the tolerance np.isclose(., 1.0) has.
CodeTol == One \div 10^8 + One \div 10^5

Started(c) == c.pc \notin {"idle", "assert"}

\* What C1 concludes of a call that must be rejected: it has raised an
\* assertion error, with no encoder invocation, no tensor operation and no
\* precision switch behind it.
RejectedAtOnce(c) ==
    /\ c.pc = "raised"
    /\ c.raised \in AssertionErrors
    /\ c.ev = <<>>
    /\ c.nenc = 0
    /\ vae_dtype = c.dtype0

\* C1 as stated: a blend call with lists of different lengths, with an empty
\* list, or with weights that do not sum to 1 (here: not even within the
\* document's 1e-6) ends in an error raised before any encoder invocation, any
\* precision switch and any tensor operation.
C1_Original ==
    \A t \in Threads :
        LET c == call[t]
        IN  (/\ c.op \in ListOps \cup BlendOps
             /\ Started(c)
             /\ \/ Items(c) # Len(c.weights)
                \/ Items(c) = 0
                \/ Abs(sum(c.weights) - One) > DocTol)
            => RejectedAtOnce(c)

\* C1 amended: the same, for weights whose sum differs from 1 by more than
\* np.isclose's tolerance of 1e-8 + 1e-5.
C1_ErrorsBeforeWork ==
    \A t \in Threads :
        LET c == call[t]
        IN  (/\ c.op \in ListOps \cup BlendOps
             /\ Started(c)
             /\ \/ Items(c) # Len(c.weights)
                \/ Items(c) = 0
                \/ Abs(sum(c.weights) - One) > CodeTol)
            => RejectedAtOnce(c)

\* A call with two images and two weights of sum 0.75 has been rejected.
C1_Witness ==
    \E t \in Threads :
        /\ call[t].op = "images_encoding_slerp"
        /\ Len(call[t].images) = 2
        /\ call[t].weights = <<One \div 2, One \div 4>>
        /\ call[t].pc = "raised"

\* What a call returns when no other call runs on the model.
RECURSIVE slerp_fold(_, _, _)
slerp_fold(latents, weights, k) ==
    IF k = 1 THEN mul_scalar(latents[1], weights[1])
    ELSE weighted_slerp(weights[k], slerp_fold(latents, weights, k - 1), latents[k])

\* The elementwise sum of weight_i * latent_i, in list order.
WeightedSum(latents, weights) ==
    Tensor(latents[1].shape,
           [k \in 1..Len(latents[1].data) |->
               SumOver([i \in 1..Len(latents) |-> Mul(latents[i].data[k], weights[i])], 1, Len(latents))],
           {})

Encoded(images) == [i \in 1..Len(images) |-> vae_encode(images[i])]

AloneResult(c) ==
    CASE c.op = "image_encoding"              -> vae_encode(c.images[1])
      [] c.op = "images_encoding"             -> WeightedSum(Encoded(c.images), c.weights)
      [] c.op = "images_encoding_barycentric" -> WeightedSum(Encoded(c.images), c.weights)
      [] c.op = "images_encoding_slerp"       -> slerp_fold(Encoded(c.images), c.weights, Len(c.images))
      [] OTHER -> rbf_interpolation(Encoded(c.images), c.weights, c.epsilon).acc.val

\* C2: of two encode calls that run concurrently on one model, each returns
\* what it returns when run alone, and none invokes the encoder after the
\* other has switched the precision back to float16.
C2_ConcurrentCallsIndependent ==
    \A t \in Threads :
        LET c == call[t]
        IN  /\ c.raised # "RuntimeError:dtype"
            /\ c.pc \in {"returned", "raised"} => (c.pc = "returned" /\ c.out = AloneResult(c))

\* C3: when an encode call has ended, by return or by error, the encoder's
\* precision is what it was when the call began.
C3_PrecisionRestored ==
    \A t \in Threads :
        LET c == call[t]
        IN  (c.op \in EncodeOps /\ c.pc \in {"returned", "raised"}) => vae_dtype = c.dtype0

\* C4: the linear blend and the barycentric blend of the same latents and
\* weights return the same tensor, the elementwise sum of weight_i * latent_i.
C4_LinearIsBarycentric ==
    \A t \in Threads :
        LET c == call[t]
        IN  /\ (c.pc = "returned" /\ c.op \in {"images_encoding", "images_encoding_barycentric",
                                               "barycentric_interpolation"})
               => c.out = WeightedSum(c.lat, c.weights)
            /\ (c.pc = "returned" /\ c.op = "images_encoding")
               => c.out = barycentric_interpolation(c.lat, c.weights).acc.val

\* The linear blend of three latents, not all the same, has returned.
C4_Witness ==
    \E t \in Threads :
        /\ call[t].op = "images_encoding"
        /\ call[t].pc = "returned"
        /\ Len(call[t].lat) = 3
        /\ call[t].lat[1] # call[t].lat[2]

\* C5: every blend returns a tensor of the shape of one input latent.
C5_OutputShape ==
    \A t \in Threads :
        LET c == call[t]
        IN  (c.pc = "returned" /\ c.op \in ListOps \cup BlendOps) => c.out.shape = c.lat[1].shape

\* C6: weighted_slerp of two identical latents, with a weight in [0, 1], returns
\* no NaN: it returns the linear interpolation, which is the latent itself.
C6_SlerpOfIdentical ==
    \A t \in Threads :
        LET c == call[t]
        IN  (c.op = "weighted_slerp" /\ c.pc = "returned" /\ c.args[1] = c.args[2])
            => /\ c.out.nan = {}
               /\ c.out = lerp(c.weights[1], c.args[1], c.args[2])

\* The weight lists that pass the check for n items.
ValidWeights(n) == {w \in WeightLists : check_weights(n, w) = "ok"}

C8_Original ==
    (checked.verdict # "" /\ checked.n = Len(checked.weights))
        => (checked.verdict = "ok" <=> Abs(sum(checked.weights) - One) <= DocTol)

\* C8 amended: the check accepts a weight list of matching length exactly
\* when its sum is within 1e-8 + 1e-5 of 1.
C8_IscloseTolerance ==
    (checked.verdict # "" /\ checked.n = Len(checked.weights))
        => (checked.verdict = "ok" <=> Abs(sum(checked.weights) - One) <= CodeTol)

\* A weight list whose sum is off by more than 1e-6 has been accepted.
C8_Witness ==
    /\ checked.verdict = "ok"
    /\ checked.n = 2
    /\ Abs(sum(checked.weights) - One) > DocTol

\* C9: images_encoding_slerp is a left fold in list order: after k passes it
\* has invoked the encoder k times, on the first k images in order, and its
\* running result is the fold of the first k latents and weights; it returns
\* the fold of them all.
C9_SlerpIsLeftFold ==
    \A t \in Threads :
        LET c == call[t]
            k == Len(c.lat)
        IN  (c.op = "images_encoding_slerp" /\ c.pc \in {"loop", "to16", "returned"})
            => /\ c.nenc = k
               /\ c.lat = Encoded(SubSeq(c.images, 1, k))
               /\ k >= 1 => c.acc.val = slerp_fold(c.lat, c.weights, k)
               /\ c.pc \in {"to16", "returned"} => k = Len(c.images)
               /\ c.pc = "returned" => c.out = slerp_fold(c.lat, c.weights, Len(c.images))

\* images_encoding_slerp has returned a tensor without NaN for three images.
C9_Witness ==
    \E t \in Threads :
        /\ call[t].op = "images_encoding_slerp"
        /\ call[t].pc = "returned"
        /\ Len(call[t].images) = 3
        /\ call[t].out.nan = {}

\* C10: no blend writes to its inputs: the latents hold the values they had
\* when the call got them, and the accumulator is no input latent.
C10_InputsUnchanged ==
    \A t \in Threads :
        LET c == call[t]
        IN  /\ c.op \in BlendOps \cup {"weighted_slerp"} => c.lat = c.args
            /\ c.op \in ListOps => c.lat = Encoded(SubSeq(c.images, 1, Len(c.lat)))
            /\ c.op \in ListOps \cup BlendOps => c.acc.alias = 0

\* barycentric_interpolation has returned the blend of three latents.
C10_Witness ==
    \E t \in Threads :
        /\ call[t].op = "barycentric_interpolation"
        /\ call[t].pc = "returned"
        /\ Len(call[t].lat) = 3

====
